---- MODULE Spec2Model ----
(***************************************************************************)
(* django_ses.SESBackend: the Django e-mail backend for Amazon SES, with   *)
(* its client-side throttle over the module-level cached_rate_limits and   *)
(* recent_send_times.                                                      *)
(*                                                                         *)
(* Time is counted in whole seconds (one clock tick = one second).  Every  *)
(* caller is a thread holding its own SESBackend instance; the statements  *)
(* of send_messages and get_rate_limit are the steps of the model, so that *)
(* callers interleave between them.                                        *)
(***************************************************************************)
EXTENDS Integers, Sequences, FiniteSets, TLC

\* ------------------------------------------------------------------ bounds
MaxTime == 3
MaxMsgs == 2
MaxCalls == 2
MaxErrors == 1

\* --------------------------------------------------------------- constants
Callers == {"a", "b"}
ACCESS_KEY == "AKIA"
None == "None"
window == 2
RateLimits == {1, 2}
NoThrottle == [kind |-> "None", num |-> 0, den |-> 1]
ZeroThrottle == [kind |-> "float", num |-> 0, den |-> 1]
DefaultThrottle == [kind |-> "float", num |-> 1, den |-> 2]
ThrottleSettings == {NoThrottle, ZeroThrottle, DefaultThrottle}
error_keys == {"status", "reason", "body", "request_id", "error_code", "error_message"}
success_keys == {"status", "message_id", "request_id"}

\* The burst of spec section 8: rate_limit 10, one batch sent back-to-back.
BurstLimits == [time |-> 2, msgs |-> 12, calls |-> 1, errors |-> 0, rates |-> {10}]

\* Two callers at once, one message each: a provider quota of 1 a second
\* throttled by a factor of 0.25 (the second send in a window is delayed), no
\* remote failures.
QuarterThrottle == [kind |-> "float", num |-> 1, den |-> 4]
ConcLimits == [time |-> 2, msgs |-> 1, calls |-> 2, errors |-> 0, rates |-> {1}]

VARIABLES
    cached_rate_limits,  \* module global: ACCESS_KEY -> float
    recent_send_times,   \* module global: list of datetimes, in list order
    throttle,            \* settings.AWS_SES_AUTO_THROTTLE
    clock,               \* datetime.now(), in seconds
    backend,             \* per caller: the fields of its SESBackend
    frame,               \* per caller: the running call, its locals and position
    hist,                \* per caller: what the running (or last) call has done
    dispatched,          \* number of send_raw_email calls made in the current second
    quota_queries,       \* number of get_send_quota calls made so far
    budget,              \* calls started and remote failures injected so far
    limits,              \* what the environment may do in this run
    threads              \* the callers that run

vars == <<cached_rate_limits, recent_send_times, throttle, clock, backend, frame,
          hist, dispatched, quota_queries, budget, limits, threads>>

\* ----------------------------------------------------------- pure helpers
\* Mutant: `if self._throttle is not None:` -- a factor of 0 throttles.
TruthyUnlessNone(t) == t.kind = "float"

\* `if self._throttle:` -- None and 0 are falsy.
Truthy(t) == t.kind = "float" /\ t.num # 0

\* `if new_conn_created:` -- open() answers False or None, both falsy.
TruthyFlag(x) == x = "True"

\* Mutant: open() answers True whether or not it made the connection.
OpenReturnTrue(hadConnection) == "True"

\* What open() returns: False when a connection exists, else it falls off
\* the end of the method.
OpenReturn(hadConnection) == IF hadConnection THEN "False" ELSE None

\* Mutant: the loop keeps the entry that lies exactly on window_start.
RECURSIVE PruneKeepsBoundary(_, _)
PruneKeepsBoundary(times, window_start) ==
    IF times = <<>> THEN <<>>
    ELSE IF Head(times) >= window_start
         THEN <<Head(times)>> \o PruneKeepsBoundary(Tail(times), window_start)
         ELSE PruneKeepsBoundary(Tail(times), window_start)

\* Mutant: the loop inserts at the front, so the kept entries come out
\* newest first.
RECURSIVE PruneNewestFirst(_, _)
PruneNewestFirst(times, window_start) ==
    IF times = <<>> THEN <<>>
    ELSE IF Head(times) > window_start
         THEN PruneNewestFirst(Tail(times), window_start) \o <<Head(times)>>
         ELSE PruneNewestFirst(Tail(times), window_start)

\* The prune loop: keep the entries strictly newer than window_start.
RECURSIVE Prune(_, _)
Prune(times, window_start) ==
    IF times = <<>> THEN <<>>
    ELSE IF Head(times) > window_start
         THEN <<Head(times)>> \o Prune(Tail(times), window_start)
         ELSE Prune(Tail(times), window_start)

\* Mutant: the comparison written `>=`.
ExceedsOrEqual(count, rate, t) == count * t.den >= rate * window * t.num

\* `len(new_send_times) > rate_limit * window * self._throttle`
Exceeds(count, rate, t) == count * t.den > rate * window * t.num

\* Mutant: the elapsed time is taken for the delay.
DelayIsElapsed(nowv, oldest) == nowv - oldest

\* `delay = window - total_seconds`, total_seconds being now - new_send_times[0]
Delay(nowv, oldest) == window - (nowv - oldest)

\* `if delay > 0: sleep(delay)`
Sleeps(d) == d > 0

\* Mutant: the instant appended is read again after the delay.
StampAfterDelay(nowv, clk) == clk

\* `recent_send_times.append(now)`: of the instant now read at the top of the
\* throttle and the instant clk at which the append runs, now is recorded.
Stamp(nowv, clk) == nowv

\* Mutant: an empty batch is treated like any other.
EmptyBatchNever(n) == FALSE

\* `if not email_messages: return`
EmptyBatch(n) == n = 0

\* Mutant: the lookup never finds the key.
CachedNever(cache) == FALSE

\* The cache lookup of get_rate_limit.
Cached(cache) == ACCESS_KEY \in DOMAIN cache

\* `cached_rate_limits[settings.ACCESS_KEY] = ret`
Store(cache, ret) ==
    [k \in DOMAIN cache \cup {ACCESS_KEY} |-> IF k = ACCESS_KEY THEN ret ELSE cache[k]]

\* The head of the `for message in email_messages` loop with the
\* `if self._throttle` under it: where the call goes for message i of n.
LoopHead(i, n, t) ==
    IF i > n THEN "finish" ELSE IF Truthy(t) THEN "now" ELSE "send"

\* Mutant: the timestamp is appended before the decision is taken.
StepAfterAppendFirst(pc) ==
    CASE pc = "now" -> "rl_check"
      [] pc = "rate" -> "prune"
      [] pc = "prune" -> "rebind"
      [] pc = "rebind" -> "append"
      [] pc = "append" -> "decide"
      [] pc = "decide" -> "send"

\* Mutant: the rate limit is fetched after the timestamp is appended.
StepAfterRateLast(pc) ==
    CASE pc = "now" -> "prune"
      [] pc = "prune" -> "rebind"
      [] pc = "rebind" -> "decide"
      [] pc = "decide" -> "append"
      [] pc = "append" -> "rl_check"
      [] pc = "rate" -> "send"

\* The order of the statements of one pass of the loop body: what runs after
\* the statement at pc ("rate" stands for the return of get_rate_limit).
StepAfter(pc) ==
    CASE pc = "now" -> "rl_check"
      [] pc = "rate" -> "prune"
      [] pc = "prune" -> "rebind"
      [] pc = "rebind" -> "decide"
      [] pc = "decide" -> "append"
      [] pc = "append" -> "send"

\* Mutant: open() lets the exception out whatever fail_silently says.
OpenRaisesAlways(b) == TRUE

\* open(): `except: if not self.fail_silently: raise`
OpenRaises(b) == ~b.fail_silently

EmptyCache == [k \in {} |-> 0]
IdleFrame ==
    [op |-> "idle", pc |-> "idle", n |-> 0, idx |-> 0, num_sent |-> 0, now |-> 0,
     rate_limit |-> 0, new_send_times |-> <<>>, aliased |-> FALSE,
     new_conn_created |-> None, rl_new_conn_created |-> None, wake |-> 0]
NoHist ==
    [op |-> "none", fail_silently |-> FALSE, result |-> "none", value |-> 0,
     exc |-> "", exit_connection |-> None, extra_headers |-> <<>>,
     events |-> <<>>, delays |-> <<>>,
     entry_times |-> <<>>, entry_cache |-> EmptyCache, entry_connection |-> None,
     entry_queries |-> 0, attempt_times |-> <<>>, attempt_cache |-> EmptyCache,
     opened |-> FALSE, open_failed |-> FALSE]

\* ------------------------------------------------------------------- Init
InitWith(lim, ts, thr) ==
    /\ cached_rate_limits = EmptyCache
    /\ recent_send_times = <<>>
    /\ throttle \in thr
    /\ clock = 0
    /\ backend \in {b \in [Callers -> [connection : {None}, fail_silently : BOOLEAN]] :
                       \A c \in Callers \ ts : ~b[c].fail_silently}
    /\ frame = [c \in Callers |-> IdleFrame]
    /\ hist = [c \in Callers |-> NoHist]
    /\ dispatched = 0
    /\ quota_queries = 0
    /\ budget = [calls |-> 0, errors |-> 0]
    /\ limits = lim
    /\ threads = ts

Init ==
    InitWith([time |-> MaxTime, msgs |-> MaxMsgs, calls |-> MaxCalls,
              errors |-> MaxErrors, rates |-> RateLimits],
             {"a"}, ThrottleSettings)

\* ---------------------------------------------------------- call plumbing
Running(c, op, pc) == c \in threads /\ frame[c].op = op /\ frame[c].pc = pc
InCall(c, pc) == c \in threads /\ frame[c].op # "idle" /\ frame[c].pc = pc
MayStart(c) == c \in threads /\ frame[c].op = "idle" /\ budget.calls < limits.calls
MayFail == budget.errors < limits.errors
Failed(b) == [budget EXCEPT !.errors = @ + (IF b THEN 1 ELSE 0)]

\* The record of a call, taken as it is entered with n messages.
EntryHist(c, op, n) ==
    [NoHist EXCEPT !.op = op,
                   !.fail_silently = backend[c].fail_silently,
                   !.result = "running",
                   !.extra_headers = [i \in 1..n |-> {}],
                   !.entry_times = recent_send_times,
                   !.entry_cache = cached_rate_limits,
                   !.entry_connection = backend[c].connection,
                   !.entry_queries = quota_queries,
                   !.attempt_times = recent_send_times,
                   !.attempt_cache = cached_rate_limits]

\* The call of c ends, leaving the backend's connection conn: `return v`
\* (kind "value"), `return` (kind "None") or the exception exc leaving the
\* method (kind "raise").
Ended(h, kind, v, exc, conn) ==
    [h EXCEPT !.result = kind, !.value = v, !.exc = exc, !.exit_connection = conn]
Ends(c, kind, v, exc, conn) ==
    /\ frame' = [frame EXCEPT ![c] = IdleFrame]
    /\ hist' = [hist EXCEPT ![c] = Ended(@, kind, v, exc, conn)]

\* open(): the connection left in the backend, the value returned, whether
\* the client could not be created and whether that exception leaves open().
OpenOutcomes(b) ==
    IF b.connection # None
    THEN {[connection |-> b.connection, ret |-> OpenReturn(TRUE),
           failed |-> FALSE, raised |-> FALSE]}
    ELSE {[connection |-> "client", ret |-> OpenReturn(FALSE),
           failed |-> FALSE, raised |-> FALSE]}
         \cup (IF MayFail
               THEN {[connection |-> None, ret |-> None,
                      failed |-> TRUE, raised |-> OpenRaises(b)]}
               ELSE {})

\* ----------------------------------------------------- the caller's moves
\* SESBackend(fail_silently=...): a new backend replaces the caller's.
NewBackend(c) ==
    /\ c \in threads /\ frame[c].op = "idle"
    /\ \E fs \in BOOLEAN :
         backend' = [backend EXCEPT ![c] = [connection |-> None, fail_silently |-> fs]]
    /\ UNCHANGED <<cached_rate_limits, recent_send_times, throttle, clock, frame, hist,
                   dispatched, quota_queries, budget, limits, threads>>

\* backend.open() called by the caller itself.
Open(c) ==
    /\ c \in threads /\ frame[c].op = "idle"
    /\ \E o \in OpenOutcomes(backend[c]) :
         /\ backend' = [backend EXCEPT ![c].connection = o.connection]
         /\ budget' = Failed(o.failed)
    /\ UNCHANGED <<cached_rate_limits, recent_send_times, throttle, clock, frame, hist,
                   dispatched, quota_queries, limits, threads>>

\* backend.close() called by the caller itself.
Close(c) ==
    /\ c \in threads /\ frame[c].op = "idle"
    /\ backend[c].connection # None
    /\ backend' = [backend EXCEPT ![c].connection = None]
    /\ UNCHANGED <<cached_rate_limits, recent_send_times, throttle, clock, frame, hist,
                   dispatched, quota_queries, budget, limits, threads>>

\* send_messages(email_messages) is entered; an empty batch returns at once.
SendMessages(c) ==
    /\ MayStart(c)
    /\ \E n \in 0..limits.msgs :
         /\ frame' = [frame EXCEPT ![c] =
                IF EmptyBatch(n) THEN IdleFrame
                ELSE [IdleFrame EXCEPT !.op = "send_messages", !.pc = "open",
                                       !.n = n, !.idx = 1]]
         /\ hist' = [hist EXCEPT ![c] =
                IF EmptyBatch(n)
                THEN Ended(EntryHist(c, "send_messages", n), "None", 0, "",
                           backend[c].connection)
                ELSE EntryHist(c, "send_messages", n)]
    /\ budget' = [budget EXCEPT !.calls = @ + 1]
    /\ UNCHANGED <<cached_rate_limits, recent_send_times, throttle, clock, backend,
                   dispatched, quota_queries, limits, threads>>

\* get_rate_limit() called by the caller itself.
GetRateLimit(c) ==
    /\ MayStart(c)
    /\ frame' = [frame EXCEPT ![c] =
           [IdleFrame EXCEPT !.op = "get_rate_limit", !.pc = "rl_check"]]
    /\ hist' = [hist EXCEPT ![c] = EntryHist(c, "get_rate_limit", 0)]
    /\ budget' = [budget EXCEPT !.calls = @ + 1]
    /\ UNCHANGED <<cached_rate_limits, recent_send_times, throttle, clock, backend,
                   dispatched, quota_queries, limits, threads>>

\* ------------------------------------------------- send_messages, its steps
\* new_conn_created = self.open(); if not self.connection: return
SendOpen(c) ==
    /\ Running(c, "send_messages", "open")
    /\ \E o \in OpenOutcomes(backend[c]) :
         /\ backend' = [backend EXCEPT ![c].connection = o.connection]
         /\ budget' = Failed(o.failed)
         /\ IF o.raised \/ o.connection = None
            THEN /\ frame' = [frame EXCEPT ![c] = IdleFrame]
                 /\ hist' = [hist EXCEPT ![c] =
                        [Ended(@, IF o.raised THEN "raise" ELSE "None", 0,
                               IF o.raised THEN "OpenError" ELSE "", o.connection)
                         EXCEPT !.open_failed = TRUE]]
            ELSE /\ frame' = [frame EXCEPT
                       ![c].new_conn_created = o.ret,
                       ![c].pc = LoopHead(1, frame[c].n, throttle)]
                 /\ hist' = [hist EXCEPT ![c].opened = (backend[c].connection = None)]
    /\ UNCHANGED <<cached_rate_limits, recent_send_times, throttle, clock,
                   dispatched, quota_queries, limits, threads>>

\* now = datetime.now()
ReadNow(c) ==
    /\ Running(c, "send_messages", "now")
    /\ frame' = [frame EXCEPT ![c].now = clock, ![c].pc = StepAfter("now")]
    /\ hist' = [hist EXCEPT ![c].attempt_times = recent_send_times,
                            ![c].attempt_cache = cached_rate_limits]
    /\ UNCHANGED <<cached_rate_limits, recent_send_times, throttle, clock, backend,
                   dispatched, quota_queries, budget, limits, threads>>

\* ------------------------------------------------ get_rate_limit, its steps
\* get_rate_limit hands r to its caller: the throttle of send_messages goes on
\* to prune, a call made by the caller itself returns r.
RateLimitIs(c, r, conn) ==
    IF frame[c].op = "send_messages"
    THEN /\ frame' = [frame EXCEPT ![c].rate_limit = r, ![c].pc = StepAfter("rate")]
         /\ hist' = hist
    ELSE Ends(c, "value", r, "", conn)

\* if settings.ACCESS_KEY in cached_rate_limits: return the cached value
RateLimitCheck(c) ==
    /\ InCall(c, "rl_check")
    /\ IF Cached(cached_rate_limits)
       THEN RateLimitIs(c, cached_rate_limits[ACCESS_KEY], backend[c].connection)
       ELSE /\ frame' = [frame EXCEPT ![c].pc = "rl_open"]
            /\ hist' = hist
    /\ UNCHANGED <<cached_rate_limits, recent_send_times, throttle, clock, backend,
                   dispatched, quota_queries, budget, limits, threads>>

\* new_conn_created = self.open(); if not self.connection: raise Exception(...)
RateLimitOpen(c) ==
    /\ InCall(c, "rl_open")
    /\ \E o \in OpenOutcomes(backend[c]) :
         /\ backend' = [backend EXCEPT ![c].connection = o.connection]
         /\ budget' = Failed(o.failed)
         /\ IF o.raised \/ o.connection = None
            THEN Ends(c, "raise", 0, IF o.raised THEN "OpenError" ELSE "Exception",
                      o.connection)
            ELSE /\ frame' = [frame EXCEPT ![c].rl_new_conn_created = o.ret,
                                           ![c].pc = "rl_quota"]
                 /\ hist' = [hist EXCEPT ![c].opened =
                                 (@ \/ backend[c].connection = None)]
    /\ UNCHANGED <<cached_rate_limits, recent_send_times, throttle, clock,
                   dispatched, quota_queries, limits, threads>>

\* finally: if new_conn_created: self.close()
ClosedIf(flag, conn) == IF TruthyFlag(flag) THEN None ELSE conn
AfterFinally(c, flag) == [backend EXCEPT ![c].connection = ClosedIf(flag, @)]

\* try: quota_dict = self.connection.get_send_quota() ... finally: ...
\* The query answers with the provider's MaxSendRate, or it raises.
RateLimitQuery(c) ==
    /\ InCall(c, "rl_quota")
    /\ quota_queries' = quota_queries + 1
    /\ backend' = AfterFinally(c, frame[c].rl_new_conn_created)
    /\ \/ \E r \in limits.rates :
            /\ cached_rate_limits' = Store(cached_rate_limits, r)
            /\ RateLimitIs(c, r, ClosedIf(frame[c].rl_new_conn_created,
                                          backend[c].connection))
            /\ budget' = budget
       \/ /\ MayFail
          /\ budget' = Failed(TRUE)
          /\ Ends(c, "raise", 0, "QuotaError",
                  ClosedIf(frame[c].rl_new_conn_created, backend[c].connection))
          /\ cached_rate_limits' = cached_rate_limits
    /\ UNCHANGED <<recent_send_times, throttle, clock, dispatched, limits, threads>>

\* ------------------------------------------------------------ the throttle
\* window_start = now - timedelta(seconds=window); the loop over
\* recent_send_times fills the new list new_send_times.
PruneStep(c) ==
    /\ Running(c, "send_messages", "prune")
    /\ frame' = [frame EXCEPT
           ![c].new_send_times = Prune(recent_send_times, frame[c].now - window),
           ![c].aliased = FALSE,
           ![c].pc = StepAfter("prune")]
    /\ UNCHANGED <<cached_rate_limits, recent_send_times, throttle, clock, backend, hist,
                   dispatched, quota_queries, budget, limits, threads>>

\* recent_send_times = new_send_times: the global now names c's list, and
\* the lists other callers built are no longer the global one.
Rebind(c) ==
    /\ Running(c, "send_messages", "rebind")
    /\ recent_send_times' = frame[c].new_send_times
    /\ frame' = [d \in Callers |->
           IF d = c THEN [frame[d] EXCEPT !.aliased = TRUE, !.pc = StepAfter("rebind")]
           ELSE [frame[d] EXCEPT !.aliased = FALSE]]
    /\ UNCHANGED <<cached_rate_limits, throttle, clock, backend, hist,
                   dispatched, quota_queries, budget, limits, threads>>

\* if len(new_send_times) > rate_limit * window * self._throttle:
\*     delay = window - (now - new_send_times[0]); if delay > 0: sleep(delay)
Decide(c) ==
    /\ Running(c, "send_messages", "decide")
    /\ LET f == frame[c]
           over == Exceeds(Len(f.new_send_times), f.rate_limit, throttle)
           d == IF over THEN Delay(f.now, f.new_send_times[1]) ELSE 0
       IN /\ frame' = [frame EXCEPT
                 ![c].pc = IF over /\ Sleeps(d) THEN "sleep" ELSE StepAfter("decide"),
                 ![c].wake = IF over /\ Sleeps(d) THEN clock + d ELSE 0]
          /\ hist' = [hist EXCEPT
                 ![c].events = Append(@, <<"decide", f.idx>>),
                 ![c].delays = IF over
                               THEN Append(@, [msg |-> f.idx, delay |-> d,
                                               slept |-> Sleeps(d)])
                               ELSE @]
    /\ UNCHANGED <<cached_rate_limits, recent_send_times, throttle, clock, backend,
                   dispatched, quota_queries, budget, limits, threads>>

\* sleep(delay) returns once delay seconds have passed.
Wake(c) ==
    /\ Running(c, "send_messages", "sleep")
    /\ clock >= frame[c].wake
    /\ frame' = [frame EXCEPT ![c].pc = StepAfter("decide"), ![c].wake = 0]
    /\ UNCHANGED <<cached_rate_limits, recent_send_times, throttle, clock, backend, hist,
                   dispatched, quota_queries, budget, limits, threads>>

\* recent_send_times.append(now): the global list grows in place, and with it
\* the new_send_times of the caller whose list it is.
AppendNow(c) ==
    /\ Running(c, "send_messages", "append")
    /\ recent_send_times' = Append(recent_send_times, Stamp(frame[c].now, clock))
    /\ frame' = [d \in Callers |->
           LET g == IF frame[d].aliased
                    THEN [frame[d] EXCEPT !.new_send_times =
                              Append(@, Stamp(frame[c].now, clock))]
                    ELSE frame[d]
           IN IF d = c THEN [g EXCEPT !.pc = StepAfter("append")] ELSE g]
    /\ hist' = [hist EXCEPT ![c].events = Append(@, <<"append", frame[c].idx>>)]
    /\ UNCHANGED <<cached_rate_limits, throttle, clock, backend,
                   dispatched, quota_queries, budget, limits, threads>>

\* ---------------------------------------------------------------- the send
\* The headers a message carries after send_raw_email answered / raised
\* ClientError: message.extra_headers[key] = ... for each key.
WithHeaders(headers, i, keys) == [headers EXCEPT ![i] = @ \cup keys]

\* num_sent += 1 after a send that answered.
Counted(num_sent) == num_sent + 1

\* Mutants: the handler always re-raises; the handler never re-raises.
ReraisesAlways(b) == TRUE
ReraisesNever(b) == FALSE

\* `if not self.fail_silently: raise` in the ClientError handler.
Reraises(b) == ~b.fail_silently

\* try: response = self.connection.send_raw_email(...) ...
\* except botocore.exceptions.ClientError as err: ...
SendRaw(c) ==
    /\ Running(c, "send_messages", "send")
    /\ dispatched' = dispatched + 1
    /\ LET f == frame[c]
           sent == [hist EXCEPT ![c].events = Append(@, <<"send", f.idx>>)]
       IN \/ /\ frame' = [frame EXCEPT
                    ![c].num_sent = Counted(@),
                    ![c].idx = @ + 1,
                    ![c].pc = LoopHead(f.idx + 1, f.n, throttle)]
             /\ hist' = [sent EXCEPT ![c].extra_headers =
                             WithHeaders(@, f.idx, success_keys)]
             /\ budget' = budget
          \/ /\ MayFail
             /\ budget' = Failed(TRUE)
             /\ IF Reraises(backend[c])
                THEN /\ frame' = [frame EXCEPT ![c] = IdleFrame]
                     /\ hist' = [sent EXCEPT ![c] =
                            Ended([@ EXCEPT !.extra_headers =
                                       WithHeaders(@, f.idx, error_keys)],
                                  "raise", 0, "ClientError", backend[c].connection)]
                ELSE /\ frame' = [frame EXCEPT
                            ![c].idx = @ + 1,
                            ![c].pc = LoopHead(f.idx + 1, f.n, throttle)]
                     /\ hist' = [sent EXCEPT ![c].extra_headers =
                                     WithHeaders(@, f.idx, error_keys)]
    /\ UNCHANGED <<cached_rate_limits, recent_send_times, throttle, clock, backend,
                   quota_queries, limits, threads>>

\* if new_conn_created: self.close()
\* return num_sent
Finish(c) ==
    /\ Running(c, "send_messages", "finish")
    /\ backend' = AfterFinally(c, frame[c].new_conn_created)
    /\ Ends(c, "value", frame[c].num_sent, "",
            ClosedIf(frame[c].new_conn_created, backend[c].connection))
    /\ UNCHANGED <<cached_rate_limits, recent_send_times, throttle, clock,
                   dispatched, quota_queries, budget, limits, threads>>

\* ---------------------------------------------------------------- the clock
Tick ==
    /\ clock < limits.time
    /\ clock' = clock + 1
    /\ dispatched' = 0
    /\ UNCHANGED <<cached_rate_limits, recent_send_times, throttle, backend, frame, hist,
                   quota_queries, budget, limits, threads>>

Next ==
    \/ Tick
    \/ \E c \in Callers :
         \/ NewBackend(c) \/ Open(c) \/ Close(c)
         \/ SendMessages(c) \/ GetRateLimit(c)
         \/ SendOpen(c) \/ ReadNow(c)
         \/ RateLimitCheck(c) \/ RateLimitOpen(c) \/ RateLimitQuery(c)
         \/ PruneStep(c) \/ Rebind(c) \/ Decide(c) \/ Wake(c) \/ AppendNow(c)
         \/ SendRaw(c) \/ Finish(c)

Spec == Init /\ [][Next]_vars

\* The burst scenario: default throttle, a provider quota of 10 a second.
InitBurst == InitWith(BurstLimits, {"a"}, {DefaultThrottle})
SpecBurst == InitBurst /\ [][Next]_vars

\* Two threads, each with its own backend, over the shared module globals.
InitConc == InitWith(ConcLimits, Callers, {QuarterThrottle})
SpecConc == InitConc /\ [][Next]_vars

TypeOK ==
    /\ clock \in 0..limits.time
    /\ \A c \in Callers : frame[c].idx <= frame[c].n + 1

\* ================================================================== claims
Headers(c) == hist[c].extra_headers
Events(c) == hist[c].events
SentBy(c) == hist[c].op = "send_messages"

\* C1: with the default throttle factor and a single caller, the number of
\* messages handed to send_raw_email within any one second never exceeds the
\* cached rate limit.
C1_ThroughputUnderLimit ==
    (throttle = DefaultThrottle /\ ACCESS_KEY \in DOMAIN cached_rate_limits)
        => dispatched <= cached_rate_limits[ACCESS_KEY]

\* Message k of a batch has just been through its throttle decision, the
\* sequence was empty when the batch began, the rate limit is 10 with the
\* default factor, and all k messages read the same now.
BackToBack(c, k) ==
    /\ frame[c].op = "send_messages" /\ frame[c].idx = k
    /\ frame[c].pc \in {"sleep", "append"}
    /\ hist[c].entry_times = <<>>
    /\ frame[c].rate_limit = 10 /\ throttle = DefaultThrottle
    /\ Len(recent_send_times) = k - 1
    /\ \A i \in 1..(k - 1) : recent_send_times[i] = frame[c].now

\* C2 as claimed: 11 messages sent back-to-back from an empty sequence at
\* rate_limit 10 compute exactly one delay, on the 11th send, of
\* 2.0 - (t0 - oldest of the first 10 timestamps).
C2_DelayOnEleventh ==
    \A c \in Callers :
        BackToBack(c, 11) =>
            /\ Len(hist[c].delays) = 1
            /\ hist[c].delays[1].msg = 11
            /\ hist[c].delays[1].delay = window - (frame[c].now - recent_send_times[1])

\* C2 as amended: sends 1 to 11 compute no delay; the 12th send computes the
\* one delay, 2.0 - (t0 - oldest of the first 11 timestamps), and sleeps it.
C2_DelayOnTwelfth ==
    \A c \in Callers : \A k \in 1..12 :
        BackToBack(c, k) =>
            IF k <= 11 THEN hist[c].delays = <<>> /\ frame[c].pc = "append"
            ELSE /\ Len(hist[c].delays) = 1
                 /\ hist[c].delays[1].msg = 12
                 /\ hist[c].delays[1].delay =
                        window - (frame[c].now - recent_send_times[1])
                 /\ hist[c].delays[1].slept

C2_Witness == \E c \in Callers : BackToBack(c, 12) /\ frame[c].pc = "sleep"

\* C3: with the throttle factor 0 or None, a send_messages call applies no
\* delay, makes no quota query and leaves the send-time sequence and the
\* rate-limit cache as they were when it was entered.
C3_DisabledIsPassthrough ==
    \A c \in Callers :
        (SentBy(c) /\ throttle \in {NoThrottle, ZeroThrottle}) =>
            /\ hist[c].delays = <<>>
            /\ \A k \in 1..Len(Events(c)) : Events(c)[k][1] = "send"
            /\ frame[c].pc \in {"idle", "open", "send", "finish"}
            /\ quota_queries = hist[c].entry_queries
            /\ recent_send_times = hist[c].entry_times
            /\ cached_rate_limits = hist[c].entry_cache

C3_Witness ==
    \E c \in Callers :
        /\ SentBy(c) /\ throttle = ZeroThrottle
        /\ hist[c].result = "value" /\ hist[c].value = 2

\* C4: with fail_silently=True and a connection, no ClientError leaves
\* send_messages; when it returns, every message carries either the three
\* success keys or the six error keys, and the count returned is the number
\* of messages whose send succeeded.
C4_FailSilentlyCounts ==
    \A c \in Callers :
        (SentBy(c) /\ hist[c].fail_silently) =>
            /\ hist[c].exc # "ClientError"
            /\ \A i \in DOMAIN Headers(c) :
                   Headers(c)[i] \in {{}, success_keys, error_keys}
            /\ hist[c].result = "value" =>
                   /\ \A i \in DOMAIN Headers(c) :
                          Headers(c)[i] \in {success_keys, error_keys}
                   /\ hist[c].value =
                          Cardinality({i \in DOMAIN Headers(c) :
                                          Headers(c)[i] = success_keys})

C4_Witness ==
    \E c \in Callers :
        /\ SentBy(c) /\ hist[c].fail_silently
        /\ hist[c].result = "value" /\ hist[c].value = 1
        /\ Headers(c) = <<error_keys, success_keys>>

\* C5: with fail_silently=False, once the send of message i has raised a
\* ClientError the call has ended with that error and no count, message i
\* carries the error keys, and nothing was done for any message after i.
C5_ErrorPropagates ==
    \A c \in Callers : \A i \in DOMAIN Headers(c) :
        (SentBy(c) /\ ~hist[c].fail_silently /\ Headers(c)[i] = error_keys) =>
            /\ hist[c].result = "raise" /\ hist[c].exc = "ClientError"
            /\ frame[c].op = "idle"
            /\ Events(c) # <<>> /\ Events(c)[Len(Events(c))] = <<"send", i>>
            /\ \A k \in 1..Len(Events(c)) : Events(c)[k][2] <= i
            /\ \A j \in DOMAIN Headers(c) : j > i => Headers(c)[j] = {}

C5_Witness ==
    \E c \in Callers :
        /\ SentBy(c) /\ ~hist[c].fail_silently
        /\ Len(Headers(c)) = 2 /\ Headers(c)[1] = error_keys
        /\ hist[c].result = "raise"

\* C6: a call that opened the connection has closed it again by the time it
\* returns normally.
C6_OpenedIsClosedOnReturn ==
    \A c \in Callers :
        (hist[c].result \in {"value", "None"} /\ hist[c].opened) =>
            hist[c].exit_connection = None

\* C7: when the quota query fails during a throttled send, the error leaves
\* send_messages whatever fail_silently is, nothing was done for the
\* message (the last thing done, if any, is the send of the one before),
\* and the send-time sequence and the cache are as the attempt found them.
C7_NoRateLimitIsFatal ==
    \A c \in Callers :
        (SentBy(c) /\ hist[c].exc = "QuotaError") =>
            /\ hist[c].result = "raise" /\ frame[c].op = "idle"
            /\ Events(c) = <<>> \/ Events(c)[Len(Events(c))][1] = "send"
            /\ \A i \in DOMAIN Headers(c) :
                   (3 * i > Len(Events(c))) => Headers(c)[i] = {}
            /\ recent_send_times = hist[c].attempt_times
            /\ cached_rate_limits = hist[c].attempt_cache
            /\ ACCESS_KEY \notin DOMAIN cached_rate_limits

C7_Witness ==
    \E c \in Callers :
        /\ SentBy(c) /\ hist[c].exc = "QuotaError" /\ hist[c].fail_silently
        /\ Len(Headers(c)) = 2

\* C8: when send_messages cannot open a connection, fail_silently=True makes
\* it return None and fail_silently=False lets the error out; either way no
\* message is throttled or sent, no quota is queried, and the send-time
\* sequence and the cache are unchanged.
C8_NoConnectionAbandonsBatch ==
    \A c \in Callers :
        (SentBy(c) /\ hist[c].open_failed) =>
            /\ frame[c].op = "idle"
            /\ hist[c].fail_silently => hist[c].result = "None"
            /\ ~hist[c].fail_silently =>
                   hist[c].result = "raise" /\ hist[c].exc = "OpenError"
            /\ Events(c) = <<>> /\ hist[c].delays = <<>>
            /\ \A i \in DOMAIN Headers(c) : Headers(c)[i] = {}
            /\ quota_queries = hist[c].entry_queries
            /\ recent_send_times = hist[c].entry_times
            /\ cached_rate_limits = hist[c].entry_cache

C8_Witness ==
    \E c \in Callers :
        /\ SentBy(c) /\ hist[c].open_failed /\ hist[c].fail_silently
        /\ hist[c].result = "None" /\ Len(Headers(c)) = 2

\* C9: once a rate limit is cached it never changes, no step makes a quota
\* query, and a get_rate_limit that looks it up hands back the cached value
\* without touching the connection.
C9_CacheIsOneShot ==
    [][(ACCESS_KEY \in DOMAIN cached_rate_limits) =>
          /\ cached_rate_limits' = cached_rate_limits
          /\ quota_queries' = quota_queries
          /\ \A c \in Callers :
                 (frame[c].pc = "rl_check" /\ frame'[c].pc # "rl_check") =>
                     /\ backend' = backend
                     /\ IF frame[c].op = "send_messages"
                        THEN /\ frame'[c].pc = "prune"
                             /\ frame'[c].rate_limit = cached_rate_limits[ACCESS_KEY]
                        ELSE /\ hist'[c].result = "value"
                             /\ hist'[c].value = cached_rate_limits[ACCESS_KEY]]_vars

C9_Witness ==
    \E c \in Callers :
        /\ hist[c].op = "get_rate_limit" /\ hist[c].result = "value"
        /\ ACCESS_KEY \in DOMAIN hist[c].entry_cache
        /\ hist[c].value = hist[c].entry_cache[ACCESS_KEY]
        /\ quota_queries = hist[c].entry_queries

\* C10: within one send_messages call the k-th thing done is, for a
\* throttled batch, the decision, the timestamp append and the send of
\* message 1, then those of message 2, and so on in input order (for an
\* unthrottled batch, the send of message k).
C10_InputOrder ==
    \A c \in Callers : \A k \in 1..Len(Events(c)) :
        SentBy(c) =>
            IF throttle = DefaultThrottle
            THEN Events(c)[k] =
                     <<CASE k % 3 = 1 -> "decide" [] k % 3 = 2 -> "append"
                         [] OTHER -> "send",
                       ((k - 1) \div 3) + 1>>
            ELSE Events(c)[k] = <<"send", k>>

C10_Witness ==
    \E c \in Callers :
        /\ SentBy(c) /\ throttle = DefaultThrottle
        /\ hist[c].result = "value" /\ Len(Events(c)) = 6

\* Helpers of the claims below.
CountOf(seq, t) == Cardinality({i \in DOMAIN seq : seq[i] = t})
EventsOf(c, kind) == Cardinality({k \in DOMAIN Events(c) : Events(c)[k][1] = kind})
Sorted(seq) == \A i, j \in DOMAIN seq : i <= j => seq[i] <= seq[j]
NewerThan(seq, start) == LET Keep(t) == t > start IN SelectSeq(seq, Keep)
SleptFor(c) ==
    \E k \in DOMAIN hist[c].delays :
        hist[c].delays[k].msg = frame[c].idx /\ hist[c].delays[k].slept

\* C11: send_messages of an empty sequence returns None without opening a
\* connection, sending, querying the quota or changing the send-time
\* sequence or the cache.
C11_EmptyBatchDoesNothing ==
    \A c \in Callers :
        (SentBy(c) /\ Len(Headers(c)) = 0) =>
            /\ hist[c].result = "None" /\ frame[c].op = "idle"
            /\ ~hist[c].opened
            /\ hist[c].exit_connection = hist[c].entry_connection
            /\ Events(c) = <<>>
            /\ quota_queries = hist[c].entry_queries
            /\ recent_send_times = hist[c].entry_times
            /\ cached_rate_limits = hist[c].entry_cache

C11_Witness ==
    \E c \in Callers :
        /\ SentBy(c) /\ Len(Headers(c)) = 0 /\ hist[c].result = "None"
        /\ hist[c].entry_connection = None
        /\ hist[c].entry_times # <<>>

\* C12: the message whose throttle decision has been taken (and whose
\* timestamp is not yet recorded) was made to sleep if and only if the
\* number of retained timestamps is strictly greater than
\* rate_limit * 2.0 * throttle factor.
C12_SleepsIffOverThreshold ==
    \A c \in Callers :
        (frame[c].op = "send_messages" /\ frame[c].pc \in {"sleep", "append"}) =>
            /\ SleptFor(c) <=>
                   (Len(frame[c].new_send_times) * throttle.den
                        > frame[c].rate_limit * window * throttle.num)
            /\ frame[c].pc = "sleep" => SleptFor(c)
            /\ EventsOf(c, "append") = frame[c].idx - 1

C12_Witness ==
    \E c \in Callers :
        /\ frame[c].op = "send_messages" /\ frame[c].pc = "sleep"
        /\ Len(frame[c].new_send_times) = frame[c].rate_limit + 1
        /\ throttle = DefaultThrottle

\* C13: a timestamp leaves the shared sequence only by pruning: only when a
\* caller replaces the sequence and the timestamp is at or before that
\* caller's window_start.
C13_OnlyPruningRemoves ==
    [][\A t \in 0..limits.time :
          CountOf(recent_send_times', t) < CountOf(recent_send_times, t) =>
              \E c \in Callers :
                  /\ frame[c].pc = "rebind" /\ frame'[c].pc # "rebind"
                  /\ t <= frame[c].now - window]_vars

\* C14: for a single caller the shared sequence is non-decreasing, and at a
\* decision point the sequence decided on holds only timestamps strictly
\* newer than now - 2.0 seconds.
C14_WindowedAndSorted ==
    /\ Sorted(recent_send_times)
    /\ \A c \in Callers :
           (frame[c].op = "send_messages" /\ frame[c].pc = "decide") =>
               /\ frame[c].new_send_times = recent_send_times
               /\ \A i \in DOMAIN frame[c].new_send_times :
                      frame[c].new_send_times[i] > frame[c].now - window

C14_Witness ==
    \E c \in Callers :
        /\ frame[c].op = "send_messages" /\ frame[c].pc = "decide"
        /\ Len(frame[c].new_send_times) >= 1
        /\ Len(hist[c].attempt_times) > Len(frame[c].new_send_times)

\* C15: with concurrent callers the shared sequence stays ordered oldest
\* first, and the entry a decision takes for the oldest is the oldest.
C15_OrderedOldestFirst ==
    /\ Sorted(recent_send_times)
    /\ \A c \in Callers :
           (frame[c].op = "send_messages" /\ frame[c].pc = "decide") =>
               \A i \in DOMAIN frame[c].new_send_times :
                   frame[c].new_send_times[1] <= frame[c].new_send_times[i]

\* C16: a call of send_messages or get_rate_limit entered with an open
\* connection holds that connection while it runs and leaves it open when
\* it returns or raises.
C16_KeepsCallersConnection ==
    \A c \in Callers :
        (hist[c].op \in {"send_messages", "get_rate_limit"}
             /\ hist[c].entry_connection # None) =>
            IF hist[c].result = "running"
            THEN backend[c].connection = hist[c].entry_connection
            ELSE hist[c].exit_connection = hist[c].entry_connection

C16_Witness ==
    \E c \in Callers :
        /\ SentBy(c) /\ hist[c].entry_connection = "client"
        /\ hist[c].result = "value" /\ hist[c].value >= 1

\* C17: with concurrent callers and quota queries that all succeed,
\* get_send_quota is called at most once.
C17_QuotaQueriedOnce == quota_queries <= 1

\* C18: right after the prune loop, the kept list is the entries of the
\* shared sequence strictly newer than now - 2.0 seconds in their original
\* order (an entry equal to now - 2.0 is dropped), and pruning the kept list
\* again with the same now gives the kept list.
C18_PruneIdempotent ==
    \A c \in Callers :
        (frame[c].op = "send_messages" /\ frame[c].pc = "rebind") =>
            LET ws == frame[c].now - window
                kept == frame[c].new_send_times
            IN /\ Prune(kept, ws) = kept
               /\ Prune(recent_send_times, ws) = kept
               /\ kept = NewerThan(recent_send_times, ws)
               /\ \A i \in DOMAIN kept : kept[i] > ws

C18_Witness ==
    \E c \in Callers :
        /\ frame[c].op = "send_messages" /\ frame[c].pc = "rebind"
        /\ \E i \in DOMAIN recent_send_times :
               recent_send_times[i] = frame[c].now - window
        /\ Len(frame[c].new_send_times) >= 1

\* C19: for a single caller every delay computed is greater than 0 and at
\* most 2.0 seconds, and is slept.
C19_DelayWithinWindow ==
    \A c \in Callers : \A k \in DOMAIN hist[c].delays :
        /\ 0 < hist[c].delays[k].delay
        /\ hist[c].delays[k].delay <= window
        /\ hist[c].delays[k].slept

C19_Witness ==
    \E c \in Callers : \E k \in DOMAIN hist[c].delays :
        hist[c].delays[k].delay < window

\* C20: in a throttled call every message that has passed the throttle has
\* appended exactly one timestamp, the instant read before any delay, so the
\* timestamps appended are one for each message attempted, sent or failed,
\* whatever the count returned.
C20_OneStampPerAttempt ==
    \A c \in Callers :
        (SentBy(c) /\ throttle = DefaultThrottle) =>
            /\ EventsOf(c, "append") =
                   EventsOf(c, "send") + (IF frame[c].pc = "send" THEN 1 ELSE 0)
            /\ frame[c].pc = "send" =>
                   /\ EventsOf(c, "append") = frame[c].idx
                   /\ recent_send_times =
                          Append(NewerThan(hist[c].attempt_times,
                                           frame[c].now - window),
                                 frame[c].now)
            /\ hist[c].result = "value" =>
                   EventsOf(c, "append") = Len(Headers(c))

C20_Witness ==
    \E c \in Callers :
        /\ SentBy(c) /\ throttle = DefaultThrottle
        /\ hist[c].result = "value" /\ hist[c].value = 1
        /\ EventsOf(c, "append") = 2
        /\ \E k \in DOMAIN hist[c].delays : hist[c].delays[k].slept
====
